---- MODULE Spec2Model ----
(***************************************************************************)
(* Streaming speech-to-text drivers of pacsi_google_stt.                   *)
(*                                                                         *)
(* Four program variants share one shape: a capture callback pushes audio  *)
(* chunks on a queue, a generator drains the queue into the request stream *)
(* of a recognition session, and a driver thread reads the responses,      *)
(* forwards transcripts to an output queue and restarts the session when   *)
(* it ends.  The variants are                                              *)
(*   "main"   src/main.py             (global stop_event, exit command)    *)
(*   "V2"     src/V2.py               (Transcriber thread, stability gate) *)
(*   "appbar" src/app_bar_version.py  (Transcriber thread)                 *)
(*   "video"  src/video.py            (one session, exit command)          *)
(* The recognition service, the translation service and the audio device   *)
(* are the environment.                                                    *)
(***************************************************************************)
EXTENDS Integers, Sequences, FiniteSets, TLC

\* ------------------------------------------------------------------------
\* Bounds of the model
\* ------------------------------------------------------------------------
\* events of the environment in one run: chunks the device delivers,
\* responses the service sends, restarts of the transcription by the user
MaxEvents == 2
\* sessions a Transcriber thread opens (V2, appbar: api_call_count)
MaxSessions == 3
\* texts in one call of translate_text
MaxTexts == 3
\* chunks the capture generator yields in one session
MaxChunks == 2
\* buffers of CHUNK frames in the file of --dev-file
MaxFileChunks == 2
\* length of the output queue at which the service stops ending streams
MaxOut == MaxEvents + 1

\* ------------------------------------------------------------------------
\* Program constants
\* ------------------------------------------------------------------------
\* STABILITY_THRESHOLD = 0.80, in hundredths
STABILITY_THRESHOLD == 80

Variants == {"main", "V2", "appbar", "video"}

\* the end-of-stream sentinel None on a queue of chunk numbers (chunks are 1..)
NoneChunk == 0

\* ------------------------------------------------------------------------
\* Transcripts: sequences of tokens.  A token is a word, the blank " " or a
\* punctuation mark; neighbouring tokens meet at a word boundary.
\* ------------------------------------------------------------------------
\* str.lower() / re.I on one token
Lower(tok) ==
    CASE tok = "EXIT" -> "exit"
      [] tok = "SORTIE" -> "sortie"
      [] OTHER -> tok

RECURSIVE LStrip(_)
LStrip(t) == IF t # <<>> /\ Head(t) = " " THEN LStrip(Tail(t)) ELSE t

RECURSIVE RStrip(_)
RStrip(t) ==
    IF t # <<>> /\ t[Len(t)] = " " THEN RStrip(SubSeq(t, 1, Len(t) - 1)) ELSE t

\* str.strip()
Strip(t) == RStrip(LStrip(t))

\* the search without re.I: upper-case commands are missed
ExitMatchCaseSensitive(t) == \E i \in 1..Len(t) : t[i] \in {"exit", "quit"}

\* re.search(r"\b(exit|quit)\b", transcript, re.I)
ExitMatch(t) == \E i \in 1..Len(t) : Lower(t[i]) \in {"exit", "quit"}

\* sentence_finished(text) of main.py
sentence_finished(t) ==
    LET s == Strip(t) IN s # <<>> /\ s[Len(s)] \in {".", "!", "?"}

\* the translation service on one token (html.unescape applied)
TranslateToken(tok) ==
    CASE tok = "hello" -> "bonjour"
      [] tok = "EXIT" -> "SORTIE"
      [] tok = "exits" -> "sorties"
      [] tok = "quit" -> "quitter"
      [] OTHER -> tok

\* client.translate_text(contents=...): one translation per content, in order
ServiceTranslate(contents) ==
    [i \in 1..Len(contents) |->
        [j \in 1..Len(contents[i]) |-> TranslateToken(contents[i][j])]]

\* translate_text of main.py rebuilds the list, replacing the non-empty slots
RECURSIVE Rebuild(_, _)
Rebuild(texts, translated) ==
    IF texts = <<>> THEN <<>>
    ELSE IF Strip(Head(texts)) # <<>>
         THEN <<Head(translated)>> \o Rebuild(Tail(texts), Tail(translated))
         ELSE <<Head(texts)>> \o Rebuild(Tail(texts), translated)

IsNonEmpty(t) == Strip(t) # <<>>

translate_text(texts) ==
    LET nonempty == SelectSeq(texts, IsNonEmpty)
    IN  IF nonempty = <<>> THEN texts
        ELSE Rebuild(texts, ServiceTranslate(nonempty))

\* translate_text of video.py sends every text
translate_text_video(texts) == ServiceTranslate(texts)

\* ------------------------------------------------------------------------
\* Recognition results and responses
\* ------------------------------------------------------------------------
Result(t, f, s) == [alts |-> TRUE, transcript |-> t, is_final |-> f, stability |-> s]

NoAlternatives(f) ==
    [alts |-> FALSE, transcript |-> <<>>, is_final |-> f, stability |-> 0]

THello == <<"hello">>
TPadded == <<" ", "hello", " ">>
TExit == <<"hello", " ", "EXIT", ".">>
TQuit == <<"quit">>
TExits == <<"exits">>
TBlank == <<" ">>

\* what the service may send as one response (response.results)
Responses ==
    { <<>>,
      <<NoAlternatives(TRUE)>>,
      <<Result(TExit, FALSE, 79)>>,
      <<Result(TPadded, FALSE, 80)>>,
      <<Result(THello, TRUE, 0)>>,
      <<Result(TExit, TRUE, 0)>>,
      <<Result(TQuit, FALSE, 90)>>,
      <<Result(TExits, TRUE, 100)>>,
      <<Result(TBlank, TRUE, 0)>>,
      <<Result(THello, FALSE, 10), Result(TQuit, TRUE, 0)>> }

\* ------------------------------------------------------------------------
\* Items of the output queues.  One record shape for every variant:
\*   main, video: a string (kind "text") or None (kind "none")
\*   V2: the pair (transcript, is_final); appbar: the pair (text, lang)
\* ------------------------------------------------------------------------
TextItem(t) == [kind |-> "text", text |-> t, fin |-> FALSE]
NoneItem == [kind |-> "none", text |-> <<>>, fin |-> FALSE]
PairItem(t, f) == [kind |-> "pair", text |-> t, fin |-> f]
TExiting == <<"Exiting..">>

\* len() of a string, token by token
TokLen(tok) ==
    CASE tok \in {" ", ".", "!", "?"} -> 1
      [] tok \in {"EXIT", "quit"} -> 4
      [] tok \in {"hello", "exits"} -> 5
      [] tok = "SORTIE" -> 6
      [] tok \in {"bonjour", "sorties", "quitter"} -> 7
      [] OTHER -> 9

RECURSIVE CharLen(_)
CharLen(t) == IF t = <<>> THEN 0 ELSE TokLen(Head(t)) + CharLen(Tail(t))

\* " " * n (the empty string when n <= 0)
Spaces(n) == [i \in 1..n |-> " "]

\* what one pass of a response loop does: the items it puts, whether it
\* leaves the loop for the exit command, and the loop's locals afterwards
Pass(puts, exit, ltt, el, ncp) ==
    [puts |-> puts, exit |-> exit, ltt |-> ltt, el |-> el, ncp |-> ncp]

\* listen_print_loop of main.py, one response (stop_event not set)
listen_print_loop(results, ltt, el, ncp) ==
    IF results = <<>> THEN Pass(<<>>, FALSE, ltt, el, ncp)
    ELSE LET result == results[1]
             transcript == result.transcript
             translated == translate_text(<<transcript>>)[1]
         IN  IF ~result.alts THEN Pass(<<>>, FALSE, ltt, el, ncp)
             ELSE IF Strip(transcript) = <<>> THEN Pass(<<>>, FALSE, ltt, el, ncp)
             ELSE IF result.is_final \/ sentence_finished(transcript)
                  THEN IF ExitMatch(transcript)
                       THEN Pass(<<TextItem(translated), TextItem(TExiting)>>,
                                 TRUE, ltt, el, ncp)
                       ELSE Pass(<<TextItem(translated)>>, FALSE, translated, FALSE, 0)
             ELSE IF el
                  THEN Pass(<<TextItem(translated)>>, FALSE, translated, FALSE,
                            CharLen(translated))
                  ELSE LET shown == IF ltt # <<>> THEN ltt ELSE transcript
                       IN  Pass(<<TextItem(shown \o Spaces(ncp - CharLen(shown)))>>,
                                FALSE, ltt, el, ncp)

\* listen_print_loop of video.py, one response
listen_print_loop_video(results, ncp) ==
    IF results = <<>> THEN Pass(<<>>, FALSE, <<>>, FALSE, ncp)
    ELSE LET result == results[1]
             transcript == result.transcript
             overwrite_chars == Spaces(ncp - CharLen(transcript))
             translated == translate_text_video(<<transcript>>)[1]
         IN  IF ~result.alts THEN Pass(<<>>, FALSE, <<>>, FALSE, ncp)
             ELSE IF ~result.is_final
                  THEN Pass(<<TextItem(transcript \o overwrite_chars)>>, FALSE,
                            <<>>, FALSE, CharLen(transcript))
             ELSE IF Strip(transcript) = <<>> THEN Pass(<<>>, FALSE, <<>>, FALSE, 0)
             ELSE IF ExitMatch(transcript)
                  THEN Pass(<<TextItem(translated), TextItem(TExiting)>>, TRUE,
                            <<>>, FALSE, ncp)
                  ELSE Pass(<<TextItem(translated)>>, FALSE, <<>>, FALSE, 0)

\* the gate without "not is_final": final results are gated too
ForwardedGateAll(result) ==
    result.alts /\ result.stability >= STABILITY_THRESHOLD

\* the stability gate of V2.py: is this result forwarded
Forwarded(result) ==
    result.alts /\ (result.is_final \/ result.stability >= STABILITY_THRESHOLD)

\* Transcriber.run of V2.py, the body of "for resp in responses" after the
\* stop_event check: every result of the response in turn
RECURSIVE RunV2Results(_)
RunV2Results(results) ==
    IF results = <<>> THEN <<>>
    ELSE LET result == Head(results)
         IN  (IF Forwarded(result)
              THEN <<PairItem(Strip(result.transcript), result.is_final)>>
              ELSE <<>>) \o RunV2Results(Tail(results))

\* Transcriber.run of app_bar_version.py, one response: results[0] only
RunAppbarResults(results) ==
    IF results = <<>> THEN <<>>
    ELSE IF ~results[1].alts THEN <<>>
    ELSE LET text == Strip(results[1].transcript)
         IN  IF text # <<>> THEN <<PairItem(text, FALSE)>> ELSE <<>>

\* does the response carry a final result (the service has confirmed audio)
HasFinal(results) == \E i \in 1..Len(results) : results[i].is_final

\* ------------------------------------------------------------------------
\* State
\* ------------------------------------------------------------------------
VARIABLES
    variant,            \* which program runs
    mpc,                \* the main thread: settings, overlay, stopping, joining, exited
    starts,             \* threads started so far
    others,             \* main.py: run_transcription threads started while the
                        \* tracked one was still alive
    ovl,                \* the queue the live overlay polls: none, mine, other
    stop_event,         \* stop_event of main.py / Transcriber.stop_event
    exit_flag,          \* exit_flag of video.py
    pc,                 \* the tracked driver thread
    api_call_count,     \* Transcriber.api_call_count
    closed,             \* MicrophoneStream.closed of the current stream
    micOn,              \* the audio device stream is active (callbacks fire)
    buff,               \* MicrophoneStream._buff / SystemAudioStream.q
    firstId,            \* number of the first chunk the current stream captures
    gpc,                \* the generator: idle, check, get, drain, ended
    data,               \* the generator's batch (data / buff of generator())
    call,               \* the streaming_recognize call is live
    captured,           \* chunks the device has delivered
    fed,                \* chunks sent to the service, all sessions, in order
    yld,                \* chunks the current generator has yielded
    finalUpTo,          \* last chunk covered by a final result
    nresp,              \* responses the service has sent
    out,                \* transcript_queue / result_queue of the tracked driver
    last_translated_text, \* listen_print_loop of main.py
    elapsed,            \* main.py: TRANSLATION_INTERVAL has passed since
                        \* last_translate_time
    num_chars_printed,  \* listen_print_loop of main.py, video.py
    ended,              \* how the last session ended (none while it runs)
    expiries,           \* consecutive session expiries so far (0, 1, 2 = many)
    failures,           \* consecutive failed device opens so far (0, 1, 2 = many)
    clean,              \* no session ended other than by expiry, no stop asked
    observedStop,       \* the tracked driver has seen stop_event set
    tr_pc,              \* a call of translate_text: idle, called, requested, returned
    tr_texts,           \* translate_text: the argument texts
    tr_request,         \* translate_text: the request sent to the translation service
    tr_result,          \* translate_text: the list returned
    overdue,            \* the current session is older than the session
                        \* duration limit
    final_words,        \* SubtitleOverlay.final_words of V2.py: a list of words
    current_interim,    \* SubtitleOverlay.current_interim of V2.py
    translate_call_count, \* SubtitleOverlay.translate_call_count
    translate_char_count, \* SubtitleOverlay.translate_char_count
    rq_pc,              \* requests() of V2.py: idle, start, next, piece, done,
                        \* cancelled
    rq_chunks,          \* the lengths of the chunks mic.generator() yields
    rq_k,               \* requests(): number of the chunk in hand
    rq_i,               \* requests(): the loop variable i
    rq_sent,            \* the requests sent to the service, in order
    stt_bytes_sent,     \* Transcriber.stt_bytes_sent
    stream_arg,         \* Transcriber.stream_arg: "mic" (a device index) or
                        \* "file" (the path of --dev-file)
    wav_pos,            \* FileAudioStream.wav: buffers read from the file
    last_sent,          \* SubtitleOverlay.last_sent of app_bar_version.py
    label_text          \* SubtitleOverlay.label of app_bar_version.py: its text

progVars == <<variant, mpc, starts, others, ovl, stop_event, exit_flag, pc,
              api_call_count>>
micVars == <<closed, micOn, buff, firstId, gpc, data, call, captured, fed, yld>>
loopVars == <<finalUpTo, nresp, out, last_translated_text, elapsed,
              num_chars_printed>>
histVars == <<ended, expiries, failures, clean, observedStop>>
trVars == <<tr_pc, tr_texts, tr_request, tr_result>>
\* what the driver and the capture stream never touch
ovVars == <<final_words, current_interim, translate_call_count,
            translate_char_count>>
rqVars == <<rq_pc, rq_chunks, rq_k, rq_i, rq_sent, stt_bytes_sent>>
abVars == <<last_sent, label_text>>
otherVars == <<trVars, ovVars, abVars, rqVars, stream_arg>>
vars == <<progVars, micVars, loopVars, histVars, overdue, wav_pos, otherVars>>

\* the environment's events so far
Events == captured + nresp + (IF starts > 0 THEN starts - 1 ELSE 0)

Alive == pc \in {"TOP", "OPENING", "STREAMING", "EXPIRED", "FAILED"}
Finished == pc \in {"STOPPED", "DEAD"}
Looping == variant \in {"main", "V2", "appbar"}
IsTranscriber == variant \in {"V2", "appbar"}

\* no request to the translation service / a request with its contents
NoRequest == [called |-> FALSE, contents |-> <<>>]
Request(contents) == [called |-> TRUE, contents |-> contents]

\* the threads before anything is started
InitThreads ==
    /\ mpc = "settings"
    /\ starts = 0
    /\ others = 0
    /\ ovl = "none"
    /\ stop_event = FALSE
    /\ exit_flag = FALSE
    /\ pc = "IDLE"
    /\ api_call_count = 0
    /\ closed = TRUE
    /\ micOn = FALSE
    /\ buff = <<>>
    /\ firstId = 1
    /\ gpc = "idle"
    /\ data = <<>>
    /\ call = FALSE
    /\ captured = 0
    /\ fed = <<>>
    /\ yld = <<>>
    /\ finalUpTo = 0
    /\ nresp = 0
    /\ out = <<>>
    /\ last_translated_text = <<>>
    /\ elapsed = TRUE
    /\ num_chars_printed = 0
    /\ ended = "none"
    /\ expiries = 0
    /\ failures = 0
    /\ clean = TRUE
    /\ observedStop = FALSE
    /\ overdue = FALSE
    /\ wav_pos = 0

\* no call of translate_text
TranslateIdle ==
    /\ tr_pc = "idle"
    /\ tr_texts = <<>>
    /\ tr_request = NoRequest
    /\ tr_result = <<>>

\* SubtitleOverlay.__init__ of V2.py
OverlayIdle ==
    /\ final_words = <<>>
    /\ current_interim = <<>>
    /\ translate_call_count = 0
    /\ translate_char_count = 0

\* SubtitleOverlay.__init__ of app_bar_version.py: last_sent and the label
LabelIdle ==
    /\ last_sent = <<>>
    /\ label_text = <<>>

\* Transcriber.__init__ of V2.py, no request stream yet
RequestsIdle ==
    /\ rq_pc = "idle"
    /\ rq_chunks = <<>>
    /\ rq_k = 0
    /\ rq_i = 0
    /\ rq_sent = <<>>
    /\ stt_bytes_sent = 0

Init ==
    /\ variant \in Variants
    /\ stream_arg = "mic"
    /\ InitThreads
    /\ TranslateIdle
    /\ OverlayIdle
    /\ LabelIdle
    /\ RequestsIdle

\* ------------------------------------------------------------------------
\* The main thread
\* ------------------------------------------------------------------------
\* start_transcription_thread of main.py; Transcriber(...).start() of V2.py
\* and app_bar_version.py; the thread start of video.py.  main.py clears the
\* global stop_event and starts a thread whether or not the last one ended.
start_transcription_thread ==
    /\ mpc = "settings"
    /\ starts = 0 \/ Events < MaxEvents
    /\ variant = "video" => starts = 0
    /\ IsTranscriber => ~Alive
    /\ starts' = starts + 1
    /\ mpc' = "overlay"
    /\ stop_event' = FALSE
    /\ IF Alive
       THEN /\ others' = others + 1
            /\ ovl' = "other"
            /\ UNCHANGED <<pc, api_call_count, out, observedStop, ended,
                           failures>>
       ELSE /\ pc' = "TOP"
            /\ api_call_count' = 0
            /\ ovl' = "mine"
            /\ out' = IF IsTranscriber THEN out ELSE <<>>
            /\ observedStop' = FALSE
            /\ ended' = "none"
            /\ failures' = 0
            /\ UNCHANGED others
    /\ UNCHANGED <<variant, exit_flag, micVars, finalUpTo, nresp,
                   last_translated_text, elapsed, num_chars_printed,
                   expiries, clean>>
    /\ UNCHANGED <<overdue, wav_pos, otherVars>>

\* index of the first None on the queue, 0 when there is none
FirstNone(q) ==
    IF \E i \in 1..Len(q) : q[i].kind = "none"
    THEN CHOOSE i \in 1..Len(q) :
            /\ q[i].kind = "none"
            /\ \A j \in 1..(i - 1) : q[j].kind # "none"
    ELSE 0

\* poll_queue of main.py and video.py: takes messages until the queue is
\* empty; a None makes the overlay quit
poll_queue ==
    /\ variant \in {"main", "video"}
    /\ mpc = "overlay"
    /\ ovl = "mine"
    /\ out # <<>>
    /\ LET k == FirstNone(out)
       IN  IF k > 0
           THEN /\ out' = SubSeq(out, k + 1, Len(out))
                /\ mpc' = IF variant = "video" THEN "joining" ELSE "stopping"
                /\ ovl' = "none"
           ELSE /\ out' = <<>>
                /\ UNCHANGED <<mpc, ovl>>
    /\ UNCHANGED <<variant, starts, others, stop_event, exit_flag, pc,
                   api_call_count, micVars, finalUpTo, nresp,
                   last_translated_text, elapsed, num_chars_printed, histVars>>
    /\ UNCHANGED <<overdue, wav_pos, otherVars>>

\* overlay.mainloop() returns: the window of a Transcriber overlay is
\* destroyed, or the overlay of another main.py thread quits
overlay_closed ==
    /\ mpc = "overlay"
    /\ IsTranscriber \/ ovl = "other"
    /\ mpc' = "stopping"
    /\ ovl' = "none"
    /\ UNCHANGED <<variant, starts, others, stop_event, exit_flag, pc,
                   api_call_count, micVars, loopVars, histVars>>
    /\ UNCHANGED <<overdue, wav_pos, otherVars>>

\* stop_transcription_thread of main.py up to the join; Transcriber.stop()
stop_transcription_thread ==
    /\ mpc = "stopping"
    /\ stop_event' = TRUE
    /\ mpc' = "joining"
    /\ clean' = FALSE
    /\ UNCHANGED <<variant, starts, others, ovl, exit_flag, pc, api_call_count,
                   micVars, loopVars, ended, expiries, failures, observedStop>>
    /\ UNCHANGED <<overdue, wav_pos, otherVars>>

\* the join returns: main.py joins with timeout=2 and goes on whether or not
\* the thread has ended; the others wait for the thread to end
join_returns ==
    /\ mpc = "joining"
    /\ variant # "main" => Finished
    /\ mpc' = IF variant = "video" THEN "exited" ELSE "settings"
    /\ UNCHANGED <<variant, starts, others, ovl, stop_event, exit_flag, pc,
                   api_call_count, micVars, loopVars, histVars>>
    /\ UNCHANGED <<overdue, wav_pos, otherVars>>

\* ------------------------------------------------------------------------
\* The capture stream: MicrophoneStream / SystemAudioStream
\* ------------------------------------------------------------------------
\* a queue of one place that drops what does not fit
PutBounded(q, x) == IF q = <<>> THEN <<x>> ELSE q

\* queue.Queue().put(x): the queue has no maxsize, the put appends and
\* never waits
Put(q, x) == Append(q, x)

\* _fill_buffer / callback: the device delivers one chunk
fill_buffer ==
    /\ micOn
    /\ Events < MaxEvents
    /\ captured' = captured + 1
    /\ buff' = Put(buff, captured + 1)
    /\ UNCHANGED <<progVars, closed, micOn, firstId, gpc, data, call, fed, yld,
                   loopVars, histVars>>
    /\ UNCHANGED <<overdue, wav_pos, otherVars>>

\* what a yield hands to the request stream: the service gets it while the
\* call is live
Sent(chunks) == IF call THEN fed \o chunks ELSE fed

\* the request stream asks for the next item: the generator runs on from its
\* start or its last yield to the loop condition "while not self.closed"
\* (video.py: while True)
generator_next ==
    /\ stream_arg = "mic"
    /\ gpc = "suspended"
    /\ call
    /\ gpc' = IF variant # "video" /\ closed THEN "ended" ELSE "get"
    /\ UNCHANGED <<progVars, closed, micOn, buff, firstId, data, call, captured,
                   fed, yld, loopVars, histVars>>
    /\ UNCHANGED <<overdue, wav_pos, otherVars>>

\* self._buff.get() returns the head of the queue
generator_get ==
    /\ gpc = "get"
    /\ buff # <<>>
    /\ buff' = Tail(buff)
    /\ IF Head(buff) = NoneChunk
       THEN /\ gpc' = "ended"
            /\ UNCHANGED <<data, fed, yld>>
       ELSE IF variant = "video"
       THEN /\ gpc' = "suspended"
            /\ yld' = Append(yld, Head(buff))
            /\ fed' = Sent(<<Head(buff)>>)
            /\ UNCHANGED data
       ELSE /\ gpc' = "drain"
            /\ data' = <<Head(buff)>>
            /\ UNCHANGED <<fed, yld>>
    /\ UNCHANGED <<progVars, closed, micOn, firstId, call, captured, loopVars,
                   histVars>>
    /\ UNCHANGED <<overdue, wav_pos, otherVars>>

\* the timeout is taken for the end of the stream
AfterTimeoutEnds(stop, isclosed) == "ended"

\* except queue.Empty in generator() of main.py: return when stop_event is
\* set, continue otherwise, to the loop condition "while not self.closed"
AfterTimeout(stop, isclosed) == IF stop \/ isclosed THEN "ended" ELSE "get"

\* main.py: get(timeout=0.5) raises queue.Empty; the generator returns when
\* stop_event is set and goes back to the loop condition otherwise
generator_timeout ==
    /\ variant = "main"
    /\ gpc = "get"
    /\ buff = <<>>
    /\ gpc' = AfterTimeout(stop_event, closed)
    /\ UNCHANGED <<progVars, closed, micOn, buff, firstId, data, call, captured,
                   fed, yld, loopVars, histVars>>
    /\ UNCHANGED <<overdue, wav_pos, otherVars>>

\* the inner loop takes one more item with get(block=False); main.py returns
\* on None, dropping the batch
generator_drain ==
    /\ gpc = "drain"
    /\ buff # <<>>
    /\ buff' = Tail(buff)
    /\ IF variant = "main" /\ Head(buff) = NoneChunk
       THEN /\ gpc' = "ended"
            /\ data' = <<>>
       ELSE /\ data' = Append(data, Head(buff))
            /\ UNCHANGED gpc
    /\ UNCHANGED <<progVars, closed, micOn, firstId, call, captured, fed, yld,
                   loopVars, histVars>>
    /\ UNCHANGED <<overdue, wav_pos, otherVars>>

\* the inner loop finds the queue empty: yield b"".join(data)
generator_yield ==
    /\ gpc = "drain"
    /\ buff = <<>>
    /\ yld' = yld \o data
    /\ fed' = Sent(data)
    /\ data' = <<>>
    /\ gpc' = "suspended"
    /\ UNCHANGED <<progVars, closed, micOn, buff, firstId, call, captured,
                   loopVars, histVars>>
    /\ UNCHANGED <<overdue, wav_pos, otherVars>>

\* ------------------------------------------------------------------------
\* The driver thread: run_transcription / Transcriber.run
\* ------------------------------------------------------------------------
\* the loop condition: "while True: if stop_event.is_set(): break" of main.py,
\* "while not self.stop_event.is_set()" of the Transcribers; video.py has no
\* loop and no stop flag
run_top ==
    /\ pc = "TOP"
    /\ IF Looping /\ stop_event
       THEN /\ pc' = "STOPPED"
            /\ observedStop' = TRUE
       ELSE /\ pc' = "OPENING"
            /\ UNCHANGED observedStop
    /\ UNCHANGED <<variant, mpc, starts, others, ovl, stop_event, exit_flag,
                   api_call_count, micVars, loopVars, ended, expiries, failures,
                   clean>>
    /\ UNCHANGED <<overdue, wav_pos, otherVars>>

\* the increment is left out
CountSessionNot(v, n) == n

\* self.api_call_count += 1 at the head of every pass of the Transcribers'
\* loop, before the device is opened; main.py and video.py have no counter
CountSession(v, n) == IF v \in {"V2", "appbar"} THEN n + 1 ELSE n

\* a stream that takes over the chunks left on the last stream's queue
KeptQueue(q) == SelectSeq(q, LAMBDA c : c # NoneChunk)

\* MicrophoneStream.__init__ / SystemAudioStream.__init__: every stream is
\* built with a queue.Queue() of its own, whatever the last one still held
NewQueue(q) == <<>>

\* the with statement opens the capture stream and the session starts
run_open ==
    /\ pc = "OPENING"
    /\ pc' = "STREAMING"
    /\ api_call_count' = CountSession(variant, api_call_count)
    /\ closed' = IF variant = "video" THEN closed ELSE FALSE
    /\ micOn' = (stream_arg = "mic")
    /\ wav_pos' = 0
    /\ buff' = NewQueue(buff)
    /\ firstId' = captured + 1
    /\ gpc' = "suspended"
    /\ data' = <<>>
    /\ yld' = <<>>
    /\ call' = TRUE
    /\ last_translated_text' = <<>>
    /\ elapsed' = TRUE
    /\ num_chars_printed' = 0
    /\ ended' = "none"
    /\ failures' = 0
    /\ overdue' = FALSE
    /\ UNCHANGED <<variant, mpc, starts, others, ovl, stop_event, exit_flag,
                   captured, fed, finalUpTo, nresp, out, expiries, clean,
                   observedStop>>
    /\ UNCHANGED otherVars

\* the failed open is not caught and ends the thread
AfterOpenFailFatal(v) == "DEAD"

\* where the driver goes when opening the device fails (OSError)
AfterOpenFail(v) == IF v = "video" THEN "DEAD" ELSE "FAILED"

\* the device cannot be opened: __enter__ raises
run_open_fail ==
    /\ pc = "OPENING"
    /\ IsTranscriber => api_call_count + 1 < MaxSessions
    /\ pc' = AfterOpenFail(variant)
    /\ api_call_count' = CountSession(variant, api_call_count)
    /\ closed' = TRUE
    /\ micOn' = FALSE
    /\ buff' = NewQueue(buff)
    /\ firstId' = captured + 1
    /\ gpc' = "idle"
    /\ data' = <<>>
    /\ yld' = <<>>
    /\ call' = FALSE
    /\ ended' = "openfail"
    /\ failures' = IF failures < 2 THEN failures + 1 ELSE failures
    /\ expiries' = 0
    /\ clean' = FALSE
    /\ UNCHANGED <<variant, mpc, starts, others, ovl, stop_event, exit_flag,
                   captured, fed, loopVars, observedStop>>
    /\ UNCHANGED <<overdue, wav_pos, otherVars>>

\* time.sleep() of an except clause returns
run_backoff ==
    /\ pc \in {"EXPIRED", "FAILED"}
    /\ pc' = "TOP"
    /\ UNCHANGED <<variant, mpc, starts, others, ovl, stop_event, exit_flag,
                   api_call_count, micVars, loopVars, histVars>>
    /\ UNCHANGED <<overdue, wav_pos, otherVars>>

\* the with statement is left: __exit__ of the capture stream, and the call
\* is over.  main.py also puts None on the queue.
WithExit ==
    /\ micOn' = FALSE
    /\ closed' = IF variant = "video" THEN closed ELSE TRUE
    /\ buff' = IF variant = "main" THEN Append(buff, NoneChunk) ELSE buff
    /\ call' = FALSE
    /\ UNCHANGED <<firstId, gpc, data, captured, fed, yld>>

\* the expiry is not recognised and unwinds the thread
AfterExpiredRaise(v) == "DEAD"

\* where the driver goes when the session ends with "maximum session duration
\* exceeded": main.py continues its loop, the Transcribers sleep in the
\* except exceptions.OutOfRange clause, video.py has no handler
AfterExpired(v) ==
    CASE v = "main" -> "TOP"
      [] v \in {"V2", "appbar"} -> "EXPIRED"
      [] OTHER -> "DEAD"

\* where the driver goes on any other error of the session: main.py re-raises,
\* the Transcribers sleep in the except Exception clause
AfterError(v) ==
    CASE v \in {"V2", "appbar"} -> "FAILED"
      [] OTHER -> "DEAD"

\* the loop goes on whatever the source
AfterEndedLoops(v, arg) == IF v = "video" THEN "STOPPED" ELSE "TOP"

\* where the driver goes when the with statement is left without an
\* exception: app_bar_version.py breaks out of its loop when stream_arg is a
\* file name, the other looping drivers go to the loop head, video.py ends
AfterEnded(v, arg) ==
    IF v = "video" \/ (v = "appbar" /\ arg = "file") THEN "STOPPED" ELSE "TOP"

\* a final result confirms the audio sent so far
Finalized(results) ==
    IF HasFinal(results) /\ fed # <<>> THEN fed[Len(fed)] ELSE finalUpTo

\* the response loop after the stop check, per variant
LoopPass(results) ==
    CASE variant = "main" ->
            listen_print_loop(results, last_translated_text, elapsed,
                              num_chars_printed)
      [] variant = "video" -> listen_print_loop_video(results, num_chars_printed)
      [] variant = "V2" ->
            Pass(RunV2Results(results), FALSE, last_translated_text, elapsed,
                 num_chars_printed)
      [] OTHER ->
            Pass(RunAppbarResults(results), FALSE, last_translated_text, elapsed,
                 num_chars_printed)

\* the driver reads the next response.  With the stop flag set it leaves the
\* loop (main.py then puts None and returns False); otherwise it handles the
\* response, and the exit command ends the driver.
run_response(results) ==
    /\ pc = "STREAMING"
    /\ Events < MaxEvents
    /\ nresp' = nresp + 1
    /\ finalUpTo' = Finalized(results)
    /\ IF Looping /\ stop_event
       THEN /\ out' = IF variant = "main" THEN Append(out, NoneItem) ELSE out
            /\ pc' = AfterEnded(variant, stream_arg)
            /\ ended' = "stop"
            /\ observedStop' = TRUE
            /\ WithExit
            /\ UNCHANGED <<exit_flag, last_translated_text, elapsed,
                           num_chars_printed>>
       ELSE LET p == LoopPass(results)
            IN  /\ last_translated_text' = p.ltt
                /\ elapsed' = p.el
                /\ num_chars_printed' = p.ncp
                /\ UNCHANGED observedStop
                /\ IF p.exit
                   THEN /\ out' = IF variant = "video"
                                  THEN out \o p.puts \o <<NoneItem>>
                                  ELSE out \o p.puts
                        /\ exit_flag' = IF variant = "video" THEN TRUE ELSE exit_flag
                        /\ pc' = "STOPPED"
                        /\ ended' = "exit"
                        /\ WithExit
                   ELSE /\ out' = out \o p.puts
                        /\ UNCHANGED <<exit_flag, pc, ended, micVars>>
    /\ clean' = (clean /\ ended' = "none")
    /\ expiries' = IF ended' = "none" THEN expiries ELSE 0
    /\ UNCHANGED <<variant, mpc, starts, others, ovl, stop_event, api_call_count,
                   failures>>
    /\ UNCHANGED <<overdue, wav_pos, otherVars>>

\* the service ends the session with "maximum session duration exceeded"
run_expired ==
    /\ pc = "STREAMING"
    /\ IsTranscriber => (api_call_count < MaxSessions \/ stop_event)
    /\ pc' = AfterExpired(variant)
    /\ ended' = "expired"
    /\ expiries' = IF expiries < 2 THEN expiries + 1 ELSE expiries
    /\ WithExit
    /\ UNCHANGED <<variant, mpc, starts, others, ovl, stop_event, exit_flag,
                   api_call_count, loopVars, failures, clean, observedStop>>
    /\ UNCHANGED <<overdue, wav_pos, otherVars>>

\* the session ends with any other error
run_error ==
    /\ pc = "STREAMING"
    /\ IsTranscriber => api_call_count < MaxSessions
    /\ pc' = AfterError(variant)
    /\ ended' = "error"
    /\ expiries' = 0
    /\ clean' = FALSE
    /\ WithExit
    /\ UNCHANGED <<variant, mpc, starts, others, ovl, stop_event, exit_flag,
                   api_call_count, loopVars, failures, observedStop>>
    /\ UNCHANGED <<overdue, wav_pos, otherVars>>

\* the response stream ends without an error: main.py puts None and returns
\* False, video.py puts None when exit_flag is set and its thread ends
run_ended ==
    /\ pc = "STREAMING"
    /\ IsTranscriber => api_call_count < MaxSessions
    /\ Len(out) < MaxOut
    /\ pc' = AfterEnded(variant, stream_arg)
    /\ out' = IF variant = "main" \/ (variant = "video" /\ exit_flag)
              THEN Append(out, NoneItem) ELSE out
    /\ ended' = "ended"
    /\ expiries' = 0
    /\ clean' = FALSE
    /\ WithExit
    /\ UNCHANGED <<variant, mpc, starts, others, ovl, stop_event, exit_flag,
                   api_call_count, finalUpTo, nresp, last_translated_text,
                   elapsed, num_chars_printed, failures, observedStop>>
    /\ UNCHANGED <<overdue, wav_pos, otherVars>>

\* main.py: TRANSLATION_INTERVAL passes since last_translate_time
tick ==
    /\ variant = "main"
    /\ pc = "STREAMING"
    /\ ~elapsed
    /\ elapsed' = TRUE
    /\ UNCHANGED <<progVars, micVars, finalUpTo, nresp, out,
                   last_translated_text, num_chars_printed, histVars>>
    /\ UNCHANGED <<overdue, wav_pos, otherVars>>

Next ==
    \/ start_transcription_thread
    \/ poll_queue
    \/ overlay_closed
    \/ stop_transcription_thread
    \/ join_returns
    \/ fill_buffer
    \/ generator_next
    \/ generator_get
    \/ generator_timeout
    \/ generator_drain
    \/ generator_yield
    \/ run_top
    \/ run_open
    \/ run_open_fail
    \/ run_backoff
    \/ \E results \in Responses : run_response(results)
    \/ run_expired
    \/ run_error
    \/ run_ended
    \/ tick

Spec == Init /\ [][Next]_vars

\* ------------------------------------------------------------------------
\* The session clock: the drivers keep no time of their own (main.py relies
\* on the service to end a session at "the 305-second limit"), so the age of
\* a session is the environment's
\* ------------------------------------------------------------------------
\* the session duration limit passes while the session is open
limit_elapsed ==
    /\ pc = "STREAMING"
    /\ ~overdue
    /\ overdue' = TRUE
    /\ UNCHANGED <<progVars, micVars, loopVars, histVars, wav_pos, otherVars>>

NextCeiling == Next \/ limit_elapsed

SpecCeiling == Init /\ [][NextCeiling]_vars

\* ------------------------------------------------------------------------
\* translate_text on its own: any list of texts, in main.py and video.py
\* ------------------------------------------------------------------------
Texts == {THello, TExit, TBlank, <<>>}
\* the callers pass [transcript]; here any list of 1..MaxTexts texts
TextLists == UNION {[1..k -> Texts] : k \in 1..MaxTexts}

InitTranslate ==
    /\ variant \in {"main", "video"}
    /\ stream_arg = "mic"
    /\ InitThreads
    /\ tr_pc = "called"
    /\ tr_texts \in TextLists
    /\ tr_request = NoRequest
    /\ tr_result = <<>>
    /\ OverlayIdle
    /\ LabelIdle
    /\ RequestsIdle

\* translate_text up to the service call: main.py drops the empty and
\* whitespace-only entries and returns the originals when nothing is left;
\* video.py sends every text
translate_text_call ==
    /\ tr_pc = "called"
    /\ LET nonempty == SelectSeq(tr_texts, IsNonEmpty)
       IN  IF variant = "main" /\ nonempty = <<>>
           THEN /\ tr_result' = tr_texts
                /\ tr_pc' = "returned"
                /\ UNCHANGED tr_request
           ELSE /\ tr_request' = Request(IF variant = "main" THEN nonempty
                                          ELSE tr_texts)
                /\ tr_pc' = "requested"
                /\ UNCHANGED tr_result
    /\ UNCHANGED <<tr_texts, progVars, micVars, loopVars, histVars, overdue,
                   wav_pos, stream_arg, ovVars, abVars, rqVars>>

\* the service answers and translate_text returns: main.py rebuilds the
\* list, video.py returns the translations as they come
translate_text_return ==
    /\ tr_pc = "requested"
    /\ LET translated == ServiceTranslate(tr_request.contents)
       IN  tr_result' = IF variant = "main" THEN Rebuild(tr_texts, translated)
                        ELSE translated
    /\ tr_pc' = "returned"
    /\ UNCHANGED <<tr_texts, tr_request, progVars, micVars, loopVars, histVars,
                   overdue, wav_pos, stream_arg, ovVars, abVars, rqVars>>

NextTranslate == translate_text_call \/ translate_text_return

SpecTranslate == InitTranslate /\ [][NextTranslate]_vars

\* ------------------------------------------------------------------------
\* The overlay of V2.py: SubtitleOverlay polls result_queue while the
\* Transcriber streams
\* ------------------------------------------------------------------------
\* MAX_WORDS of SubtitleOverlay
MAX_WORDS == 50

\* str.split(): the words of t, a word being the tokens between blanks;
\* cur is the word read so far
RECURSIVE SplitFrom(_, _)
SplitFrom(t, cur) ==
    IF t = <<>> THEN (IF cur = <<>> THEN <<>> ELSE <<cur>>)
    ELSE IF Head(t) = " "
         THEN (IF cur = <<>> THEN <<>> ELSE <<cur>>) \o SplitFrom(Tail(t), <<>>)
         ELSE SplitFrom(Tail(t), Append(cur, Head(t)))

Split(t) == SplitFrom(t, <<>>)

\* the slice that keeps the head of the list
FirstWords(words) ==
    IF Len(words) > MAX_WORDS THEN SubSeq(words, 1, MAX_WORDS) ELSE words

\* self.final_words[-self.MAX_WORDS:] when the list is longer than MAX_WORDS
LastWords(words) ==
    IF Len(words) > MAX_WORDS
    THEN SubSeq(words, Len(words) - MAX_WORDS + 1, Len(words))
    ELSE words

\* what "translated" can be for a text: the service's translation, or the
\* text itself when the call raises
Translations(text) == {ServiceTranslate(<<text>>)[1], text}

\* final_words after n one-word finals: "hello" first, then "quit"
ShownWords(n) == [i \in 1..n |-> IF i = 1 THEN <<"bonjour">> ELSE <<"quitter">>]

\* V2.py after trans.start(), the loop head and the with statement: the
\* first session is open and the overlay runs its mainloop
SessionOpen(v) ==
    /\ variant = v
    /\ stream_arg = "mic"
    /\ wav_pos = 0
    /\ mpc = "overlay"
    /\ starts = 1
    /\ others = 0
    /\ ovl = "mine"
    /\ stop_event = FALSE
    /\ exit_flag = FALSE
    /\ pc = "STREAMING"
    /\ api_call_count = 1
    /\ closed = FALSE
    /\ micOn = TRUE
    /\ buff = <<>>
    /\ firstId = 1
    /\ gpc = "suspended"
    /\ data = <<>>
    /\ call = TRUE
    /\ captured = 0
    /\ fed = <<>>
    /\ yld = <<>>
    /\ finalUpTo = 0
    /\ nresp = 0
    /\ out = <<>>
    /\ last_translated_text = <<>>
    /\ elapsed = TRUE
    /\ num_chars_printed = 0
    /\ ended = "none"
    /\ expiries = 0
    /\ failures = 0
    /\ clean = TRUE
    /\ observedStop = FALSE
    /\ overdue = FALSE

SessionOpenV2 == SessionOpen("V2")

\* a V2 session is open and the overlay has shown no final yet,
\* MAX_WORDS - 1 of them, or MAX_WORDS
InitOverlay ==
    /\ SessionOpenV2
    /\ TranslateIdle
    /\ RequestsIdle
    /\ LabelIdle
    /\ \E n \in {0, MAX_WORDS - 1, MAX_WORDS} :
          /\ final_words = ShownWords(n)
          /\ translate_call_count = n
          /\ translate_char_count = IF n = 0 THEN 0 ELSE 5 + 4 * (n - 1)
    /\ current_interim = <<>>

\* _poll_queue of V2.py: empties result_queue keeping the last item taken,
\* returns when there was none or its text is empty, else translates the
\* text and updates final_words or current_interim
_poll_queue ==
    /\ variant = "V2"
    /\ mpc = "overlay"
    /\ out' = <<>>
    /\ IF out = <<>> \/ out[Len(out)].text = <<>>
       THEN UNCHANGED ovVars
       ELSE LET item == out[Len(out)]
            IN  /\ translate_call_count' = translate_call_count + 1
                /\ translate_char_count' = translate_char_count + CharLen(item.text)
                /\ \E translated \in Translations(item.text) :
                      IF item.fin
                      THEN /\ final_words' =
                                LastWords(final_words \o Split(current_interim)
                                            \o Split(translated))
                           /\ current_interim' = <<>>
                      ELSE /\ current_interim' = translated
                           /\ UNCHANGED final_words
    /\ UNCHANGED <<variant, mpc, starts, others, ovl, stop_event, exit_flag, pc,
                   api_call_count, micVars, finalUpTo, nresp,
                   last_translated_text, elapsed, num_chars_printed, histVars,
                   overdue, wav_pos, stream_arg, trVars, abVars, rqVars>>

NextOverlay == (\E results \in Responses : run_response(results)) \/ _poll_queue

SpecOverlay == InitOverlay /\ [][NextOverlay]_vars

\* ------------------------------------------------------------------------
\* The request stream of V2.py: requests() of Transcriber.run, one session.
\* A chunk is known by its length; a piece chunk[from:to] by its two ends.
\* ------------------------------------------------------------------------
RATE == 48000
DISPLAY_INTERVAL == 2500
\* frames per buffer: int(RATE * (DISPLAY_INTERVAL / 1000.0))
CHUNK == (RATE * DISPLAY_INTERVAL) \div 1000
MAX_CHUNK_BYTES == 25600
\* bytes of one frame: paInt16, one channel
FrameBytes == 2

\* the lengths of the last chunk of a session: the frames left at the end of
\* a file (FileAudioStream), one device buffer, or two joined by generator()
ChunkLens ==
    { FrameBytes, MAX_CHUNK_BYTES - FrameBytes, MAX_CHUNK_BYTES,
      MAX_CHUNK_BYTES + FrameBytes, 2 * MAX_CHUNK_BYTES,
      CHUNK * FrameBytes, 2 * CHUNK * FrameBytes }

\* the chunks of one session: full buffers, then the last chunk
ChunkLists ==
    { [i \in 1..k |-> CHUNK * FrameBytes] \o <<c>> :
        k \in 0..(MaxChunks - 1), c \in ChunkLens }

ConfigRequest == [kind |-> "config", chunk |-> 0, from |-> 0, to |-> 0]
AudioRequest(k, from, to) == [kind |-> "audio", chunk |-> k, from |-> from, to |-> to]

\* a slice that runs one byte too far
SliceEndOver(len, i) ==
    IF i + MAX_CHUNK_BYTES + 1 < len THEN i + MAX_CHUNK_BYTES + 1 ELSE len

\* the end of the slice chunk[i:i+MAX_CHUNK_BYTES] of a chunk of len bytes
SliceEnd(len, i) == IF i + MAX_CHUNK_BYTES < len THEN i + MAX_CHUNK_BYTES ELSE len

\* a V2 session is open and streaming_recognize is about to take its first
\* request; the generator will yield the chunks of rq_chunks
InitRequests ==
    /\ SessionOpenV2
    /\ TranslateIdle
    /\ OverlayIdle
    /\ LabelIdle
    /\ rq_pc = "start"
    /\ rq_chunks \in ChunkLists
    /\ rq_k = 0
    /\ rq_i = 0
    /\ rq_sent = <<>>
    /\ stt_bytes_sent = 0

\* streaming_recognize(requests()) takes the first request: yield
\* config_request
requests_config ==
    /\ rq_pc = "start"
    /\ rq_sent' = Append(rq_sent, ConfigRequest)
    /\ rq_pc' = "next"
    /\ UNCHANGED <<rq_chunks, rq_k, rq_i, stt_bytes_sent>>
    /\ UNCHANGED <<progVars, micVars, loopVars, histVars, overdue, wav_pos,
                   stream_arg, trVars, ovVars, abVars>>

\* "for chunk in mic.generator()": the next chunk, or the end of the
\* generator; then range(0, len(chunk), MAX_CHUNK_BYTES) starts at i = 0
requests_chunk ==
    /\ rq_pc = "next"
    /\ IF rq_k < Len(rq_chunks)
       THEN /\ rq_k' = rq_k + 1
            /\ rq_i' = 0
            /\ rq_pc' = IF rq_chunks[rq_k + 1] > 0 THEN "piece" ELSE "next"
       ELSE /\ rq_pc' = "done"
            /\ UNCHANGED <<rq_k, rq_i>>
    /\ UNCHANGED <<rq_chunks, rq_sent, stt_bytes_sent>>
    /\ UNCHANGED <<progVars, micVars, loopVars, histVars, overdue, wav_pos,
                   stream_arg, trVars, ovVars, abVars>>

\* one pass of the inner loop: slice the piece, count its bytes, yield the
\* audio request; the loop goes on while i + MAX_CHUNK_BYTES < len(chunk)
requests_piece ==
    /\ rq_pc = "piece"
    /\ LET len == rq_chunks[rq_k]
           to == SliceEnd(len, rq_i)
       IN  /\ stt_bytes_sent' = stt_bytes_sent + (to - rq_i)
           /\ rq_sent' = Append(rq_sent, AudioRequest(rq_k, rq_i, to))
           /\ rq_i' = rq_i + MAX_CHUNK_BYTES
           /\ rq_pc' = IF rq_i + MAX_CHUNK_BYTES < len THEN "piece" ELSE "next"
    /\ UNCHANGED <<rq_chunks, rq_k>>
    /\ UNCHANGED <<progVars, micVars, loopVars, histVars, overdue, wav_pos,
                   stream_arg, trVars, ovVars, abVars>>

\* the call ends (error, expiry, break of the response loop) and takes no
\* further request
requests_cancelled ==
    /\ rq_pc \in {"next", "piece"}
    /\ rq_pc' = "cancelled"
    /\ UNCHANGED <<rq_chunks, rq_k, rq_i, rq_sent, stt_bytes_sent>>
    /\ UNCHANGED <<progVars, micVars, loopVars, histVars, overdue, wav_pos,
                   stream_arg, trVars, ovVars, abVars>>

NextRequests ==
    \/ requests_config
    \/ requests_chunk
    \/ requests_piece
    \/ requests_cancelled

SpecRequests == InitRequests /\ [][NextRequests]_vars

\* ------------------------------------------------------------------------
\* app_bar_version.py with --dev-file: the Transcriber reads a WAV file
\* through FileAudioStream instead of the microphone
\* ------------------------------------------------------------------------
InitFile ==
    /\ variant = "appbar"
    /\ stream_arg \in {"mic", "file"}
    /\ InitThreads
    /\ TranslateIdle
    /\ OverlayIdle
    /\ LabelIdle
    /\ RequestsIdle

\* FileAudioStream.generator, asked for the next item: readframes(self.chunk)
\* gives the next buffer of the file, which is yielded, or no data at the end
\* of the file, and the generator returns.  The buffers the session has sent
\* are in yld; fed keeps the captured chunks of the microphone only.
file_generator ==
    /\ stream_arg = "file"
    /\ gpc = "suspended"
    /\ call
    /\ IF wav_pos < MaxFileChunks
       THEN /\ wav_pos' = wav_pos + 1
            /\ yld' = Append(yld, wav_pos + 1)
            /\ UNCHANGED gpc
       ELSE /\ gpc' = "ended"
            /\ UNCHANGED <<wav_pos, yld>>
    /\ UNCHANGED <<progVars, closed, micOn, buff, firstId, data, call, captured,
                   fed, loopVars, histVars, overdue, otherVars>>

NextFile ==
    \/ start_transcription_thread
    \/ overlay_closed
    \/ stop_transcription_thread
    \/ join_returns
    \/ fill_buffer
    \/ generator_next
    \/ generator_get
    \/ generator_drain
    \/ generator_yield
    \/ file_generator
    \/ run_top
    \/ run_open
    \/ run_open_fail
    \/ run_backoff
    \/ \E results \in Responses : run_response(results)
    \/ run_expired
    \/ run_error
    \/ run_ended

SpecFile == InitFile /\ [][NextFile]_vars

\* ------------------------------------------------------------------------
\* The overlay of app_bar_version.py: SubtitleOverlay polls result_queue and
\* translates what is new in the latest transcript
\* ------------------------------------------------------------------------
\* textwrap.wrap(full, width=110)
WRAP_WIDTH == 110
\* lines[-2:]
LABEL_LINES == 2

\* str.startswith().  No token is the beginning of another token, so a
\* string begins with another exactly when its tokens begin with the
\* other's tokens.
StartsWith(t, p) == Len(p) <= Len(t) /\ SubSeq(t, 1, Len(p)) = p

\* the whole transcript is sent every time
DeltaWhole(latest, sent) == latest

\* "compute delta" of _poll_queue
Delta(latest, sent) ==
    IF StartsWith(latest, sent)
    THEN Strip(SubSeq(latest, Len(sent) + 1, Len(latest)))
    ELSE latest

\* textwrap replaces every whitespace character by a blank
Unbreak(t) == [i \in 1..Len(t) |-> IF t[i] = "\n" THEN " " ELSE t[i]]

\* textwrap.wrap: the words fill a line while it stays within the width,
\* one blank between two words; line is the line being filled
RECURSIVE WrapFrom(_, _)
WrapFrom(words, line) ==
    IF words = <<>> THEN (IF line = <<>> THEN <<>> ELSE <<line>>)
    ELSE LET longer == IF line = <<>> THEN Head(words)
                       ELSE line \o <<" ">> \o Head(words)
         IN  IF line = <<>> \/ CharLen(longer) <= WRAP_WIDTH
             THEN WrapFrom(Tail(words), longer)
             ELSE <<line>> \o WrapFrom(words, <<>>)

Wrap(t) == WrapFrom(Split(Unbreak(t)), <<>>)

\* lines[-2:]
LastLines(lines) ==
    IF Len(lines) > LABEL_LINES
    THEN SubSeq(lines, Len(lines) - LABEL_LINES + 1, Len(lines))
    ELSE lines

\* "\n".join(lines)
RECURSIVE JoinLines(_)
JoinLines(lines) ==
    IF lines = <<>> THEN <<>>
    ELSE IF Len(lines) = 1 THEN lines[1]
    ELSE lines[1] \o <<"\n">> \o JoinLines(Tail(lines))

\* the label's text after "translated" is added to it
Relabel(label, translated) ==
    JoinLines(LastLines(Wrap(Strip(label \o <<" ">> \o translated))))

\* the overlay after n polls that found "hello", "quit", "hello", ... in
\* turn, each translated by the service: neither begins with the other, so
\* each was sent whole
PolledText(i) == IF i % 2 = 1 THEN THello ELSE TQuit

\* no line has left the label while the words fit in its lines, and then
\* wrapping the label again with one more word is wrapping all the words
ShownLabel(n) ==
    JoinLines(LastLines(WrapFrom(
        [i \in 1..n |-> ServiceTranslate(<<PolledText(i)>>)[1]], <<>>)))

RECURSIVE ShownChars(_)
ShownChars(n) == IF n = 0 THEN 0 ELSE ShownChars(n - 1) + CharLen(PolledText(n))

\* polls of seven-letter words that fill the lines of the label
FullLabel == LABEL_LINES * ((WRAP_WIDTH + 1) \div (CharLen(<<"bonjour">>) + 1))

\* an app_bar session is open and the overlay has polled no text yet, or
\* as many as leave room for one more word in the label, or as many as fill it
InitLabel ==
    /\ SessionOpen("appbar")
    /\ TranslateIdle
    /\ RequestsIdle
    /\ final_words = <<>>
    /\ current_interim = <<>>
    /\ \E n \in {0, FullLabel - 1, FullLabel} :
          /\ last_sent = (IF n = 0 THEN <<>> ELSE PolledText(n))
          /\ label_text = ShownLabel(n)
          /\ translate_call_count = n
          /\ translate_char_count = ShownChars(n)

\* _poll_queue of app_bar_version.py: empties result_queue keeping the last
\* item taken, returns when there was none or nothing in it is new, else
\* translates the delta (the service's translation, or the delta itself when
\* the call raises), adds it to the label and remembers the transcript
_poll_queue_appbar ==
    /\ variant = "appbar"
    /\ mpc = "overlay"
    /\ out' = <<>>
    /\ IF out = <<>> \/ out[Len(out)].text = <<>>
       THEN UNCHANGED <<abVars, translate_call_count, translate_char_count>>
       ELSE LET latest == out[Len(out)].text
                delta == Delta(latest, last_sent)
            IN  IF delta = <<>>
                THEN UNCHANGED <<abVars, translate_call_count, translate_char_count>>
                ELSE /\ translate_call_count' = translate_call_count + 1
                     /\ translate_char_count' = translate_char_count + CharLen(delta)
                     /\ \E translated \in Translations(delta) :
                           label_text' = Relabel(label_text, translated)
                     /\ last_sent' = latest
    /\ UNCHANGED <<variant, mpc, starts, others, ovl, stop_event, exit_flag, pc,
                   api_call_count, micVars, finalUpTo, nresp,
                   last_translated_text, elapsed, num_chars_printed, histVars,
                   overdue, wav_pos, stream_arg, trVars, rqVars, final_words,
                   current_interim>>

NextLabel ==
    (\E results \in Responses : run_response(results)) \/ _poll_queue_appbar

SpecLabel == InitLabel /\ [][NextLabel]_vars

\* the scheduler runs the driver thread, and the service ends every session
\* at its duration limit at the latest
FairSpec ==
    /\ Spec
    /\ WF_vars(run_top)
    /\ WF_vars(run_open)
    /\ WF_vars(run_backoff)
    /\ WF_vars(run_expired)

\* ------------------------------------------------------------------------
\* Properties
\* ------------------------------------------------------------------------
InSeq(x, q) == \E i \in 1..Len(q) : q[i] = x

\* the items a step has appended to the output queue
Appended(o, p) == SubSeq(p, Len(o) + 1, Len(p))

\* C1 (Continuity).  While sessions end by expiry only and no shutdown is
\* asked, every captured chunk beyond the finalized prefix has been fed to a
\* session or is still waiting in the capture queue or the generator's batch.
C1_Continuity ==
    (Looping /\ clean) =>
        \A c \in 1..captured :
            \/ c <= finalUpTo
            \/ InSeq(c, fed)
            \/ c >= firstId /\ (InSeq(c, buff) \/ InSeq(c, data))

\* C2 (expiry restarts).  In the looping drivers a session that ends with
\* "maximum session duration exceeded" leaves the driver in its loop (the
\* except clause or the loop head), the except clause leads to the loop head,
\* the loop head with no stop flag leads to OPENING, and OPENING leads to a
\* new session (or to the back-off of a failed device open).
C2_ExpiryRestarts ==
    [][Looping =>
        /\ (pc = "STREAMING" /\ ended' = "expired") => pc' \in {"EXPIRED", "TOP"}
        /\ (pc = "EXPIRED") => pc' \in {"EXPIRED", "TOP"}
        /\ (pc = "TOP" /\ ~stop_event) => pc' \in {"TOP", "OPENING"}
        /\ (pc = "OPENING") => pc' \in {"OPENING", "STREAMING", "FAILED"}]_vars

\* two expiries in a row, no stop flag, and the driver opens the next session
C2_Witness ==
    /\ Looping
    /\ expiries = 2
    /\ ended = "expired"
    /\ ~stop_event
    /\ pc = "OPENING"

\* C3 (other errors are retried).  After a session of a looping driver ended
\* with an error other than expiry the driver thread is alive: it backs off
\* and opens again.
C3_ErrorsHandled ==
    (Looping /\ ended = "error") => pc \in {"FAILED", "TOP", "OPENING", "STOPPED"}

\* the final results of a response that carry a transcript, as queue items
RECURSIVE FinalItems(_)
FinalItems(results) ==
    IF results = <<>> THEN <<>>
    ELSE (IF Head(results).alts /\ Head(results).is_final
          THEN <<[kind |-> "pair", text |-> Strip(Head(results).transcript),
                  fin |-> TRUE]>>
          ELSE <<>>) \o FinalItems(Tail(results))

IsFinalItem(item) == item.fin
IsInterimItem(item) == ~item.fin
IsStableInterim(result) ==
    result.alts /\ ~result.is_final /\ result.stability >= 80

\* C4 (stability gating).  When the V2 driver handles a response (stop flag
\* not set), the items it puts are appended to the queue, the final ones are
\* exactly the final results of the response, one each, in order and whatever
\* their stability, and there are no more interim items than interim results
\* of stability 0.80 or more: a result below the threshold puts nothing.
C4_StabilityGating ==
    [][\A results \in Responses :
        (variant = "V2" /\ ~stop_event /\ nresp' # nresp
            /\ run_response(results)) =>
            LET new == Appended(out, out')
            IN  /\ out' = out \o new
                /\ SelectSeq(new, IsFinalItem) = FinalItems(results)
                /\ Len(SelectSeq(new, IsInterimItem))
                     <= Len(SelectSeq(results, IsStableInterim))]_vars

\* the V2 driver has handled the response (interim 0.10, final 0.0): only the
\* final result is on the queue
C4_Witness ==
    /\ variant = "V2"
    /\ nresp = 1
    /\ out = <<[kind |-> "pair", text |-> TQuit, fin |-> TRUE]>>

\* a transcript with the whole word exit or quit, in any case
HasExitWord(t) == \E i \in 1..Len(t) : t[i] \in {"exit", "EXIT", "quit", "QUIT"}

\* C5 (exit command).  When the driver of main.py or video.py handles a final
\* result whose transcript has the word exit or quit, it puts the result's
\* text (translated) on the queue first and is STOPPED; a STOPPED driver reads
\* no response and opens no session.
C5_ExitCommand ==
    [][/\ \A results \in Responses :
            ( /\ variant \in {"main", "video"}
              /\ ~(Looping /\ stop_event)
              /\ nresp' # nresp
              /\ results # <<>>
              /\ results[1].alts
              /\ results[1].is_final
              /\ HasExitWord(results[1].transcript)
              /\ run_response(results) ) =>
                /\ Len(out') > Len(out)
                /\ SubSeq(out', 1, Len(out)) = out
                /\ out'[Len(out) + 1] =
                     [kind |-> "text",
                      text |-> ServiceTranslate(<<results[1].transcript>>)[1],
                      fin |-> FALSE]
                /\ pc' = "STOPPED"
       /\ (variant \in {"main", "video"} /\ pc = "STOPPED" /\ starts' = starts) =>
                /\ pc' = "STOPPED"
                /\ nresp' = nresp
                /\ Len(out') <= Len(out)
                /\ ~call']_vars

\* the driver of main.py has stopped on the exit command after one response
\* more
C5_Witness ==
    /\ variant = "main"
    /\ pc = "STOPPED"
    /\ ended = "exit"
    /\ nresp = 2
    /\ Len(out) >= 2

\* C6 (STOPPED is terminal).  A driver that has seen the stop flag set is
\* never in OPENING or STREAMING again.
C6_StoppedTerminal == observedStop => pc \notin {"OPENING", "STREAMING"}

\* C7 (shutdown is noticed).  Once the stop flag is set while the driver
\* thread runs, the thread eventually ends.
C7_ShutdownNoticed == (Looping /\ stop_event /\ Alive) ~> Finished

RECURSIVE Increasing(_)
Increasing(q) ==
    Len(q) < 2 \/ (q[1] < q[2] /\ Increasing(Tail(q)))

\* C8 (FIFO, lossless).  The generator yields chunks in the order they were
\* pushed, and every chunk of the stream that has left the queue has been
\* yielded or is in the batch about to be yielded.
C8_FifoLossless ==
    (variant # "video") =>
        /\ Increasing(yld \o data)
        /\ \A c \in firstId..captured :
              InSeq(c, buff) \/ InSeq(c, yld) \/ InSeq(c, data)

\* C10 (a restart replays nothing).  Every chunk the current stream holds,
\* batches or has yielded was captured after the stream was opened: a session
\* is fed live chunks only, none of an earlier session.
C10_NoReplay ==
    /\ \A i \in 1..Len(yld) : yld[i] >= firstId
    /\ \A i \in 1..Len(data) : data[i] >= firstId
    /\ \A i \in 1..Len(buff) : buff[i] = NoneChunk \/ buff[i] >= firstId

\* an earlier session was fed a chunk, and the session after it has yielded
\* a later one
C10_Witness ==
    /\ fed # <<>>
    /\ fed[1] < firstId
    /\ yld # <<>>
    /\ ended = "none"
    /\ pc = "STREAMING"

\* a response with nothing to forward: no results, or every result without
\* alternatives or with an empty or whitespace-only transcript
Malformed(results) ==
    \A i \in 1..Len(results) :
        ~results[i].alts \/ Strip(results[i].transcript) = <<>>

\* C13 (malformed or empty results are skipped).  When a driver handles a
\* response with no results, or whose results have no alternatives or an
\* empty or whitespace-only transcript, final or not, it puts nothing on the
\* output queue and changes none of its state.
C13_MalformedSkipped ==
    [][\A results \in Responses :
        ( /\ ~(Looping /\ stop_event)
          /\ Malformed(results)
          /\ run_response(results) ) =>
            UNCHANGED <<out, pc, exit_flag, last_translated_text, elapsed,
                        num_chars_printed>>]_vars

C16_CloseSentinel ==
    (Looping /\ closed /\ gpc = "get") => InSeq(NoneChunk, buff)

\* an item that carries a recognition result (not the None sentinel, not the
\* "Exiting.." notice)
IsResultItem(item) == item.kind # "none" /\ item.text # TExiting

IsPrefix(p, q) == Len(p) <= Len(q) /\ SubSeq(q, 1, Len(p)) = p

\* how many results of a response the variant's loop forwards
NForwarded(results) ==
    IF variant = "V2"
    THEN Len(SelectSeq(results, IsStableInterim)) + Len(FinalItems(results))
    ELSE IF results # <<>> /\ results[1].alts
            /\ (Strip(results[1].transcript) # <<>>
                 \/ (variant = "video" /\ ~results[1].is_final))
         THEN 1 ELSE 0

\* C17 (output order, exactly once).  The sink takes the items from the head
\* of the output queue, in order; a result item leaves the queue in no other
\* way, so each is taken once and none is lost; and a response puts one item
\* for each result the driver forwards.
C17_OutputOnce ==
    [][/\ poll_queue => \E k \in 1..Len(out) : out' = SubSeq(out, k + 1, Len(out))
       /\ ~poll_queue => IsPrefix(SelectSeq(out, IsResultItem),
                                  SelectSeq(out', IsResultItem))
       /\ \A results \in Responses :
            (~(Looping /\ stop_event) /\ run_response(results)) =>
                Len(SelectSeq(Appended(out, out'), IsResultItem))
                    = NForwarded(results)]_vars

\* C18 (one driver at a time).  A driver thread is started only when none
\* is running, so at most one driver thread and one session exist at a time.
C18_SingleDriver == [][(starts' = starts + 1) => ~Alive]_vars

\* C19 (driver state machine).  A looping driver leaves STREAMING only because
\* the session expired, failed, or the driver stops (stop flag or exit
\* command), and it enters OPENING only at its start or after a session that
\* expired or failed (or a failed device open).
C19_StateMachine ==
    [][Looping =>
        /\ (pc = "STREAMING" /\ pc' # "STREAMING") =>
                ended' \in {"expired", "error", "stop", "exit"}
        /\ (pc # "OPENING" /\ pc' = "OPENING") =>
                ended \in {"none", "expired", "error", "openfail"}]_vars

C21_LocalCeiling ==
    [][(Looping /\ pc = "STREAMING" /\ overdue /\ pc' = "STREAMING") =>
            UNCHANGED <<nresp, fed>>]_vars

C24_CallbackOnlyPushes ==
    /\ []((micOn /\ Events < MaxEvents) => ENABLED fill_buffer)
    /\ [][(captured' # captured) =>
            /\ captured' = captured + 1
            /\ buff' = buff \o <<captured'>>
            /\ UNCHANGED <<progVars, closed, micOn, firstId, gpc, data, call,
                           fed, yld, loopVars, histVars, overdue>>]_vars

\* two chunks wait on the queue of an open session whose generator has not
\* taken any
C24_Witness ==
    /\ pc = "STREAMING"
    /\ micOn
    /\ buff = <<1, 2>>
    /\ yld = <<>>

\* C25 (only final results stop the driver).  When the driver of main.py or
\* video.py handles a response whose first result is not final, it is not
\* STOPPED by it, whatever the transcript says.
C25_OnlyFinalStops ==
    [][\A results \in Responses :
        ( /\ variant \in {"main", "video"}
          /\ ~(Looping /\ stop_event)
          /\ nresp' # nresp
          /\ results # <<>>
          /\ ~results[1].is_final
          /\ run_response(results) ) => pc' # "STOPPED"]_vars

\* the words of the final items of a queue that carry a text
RECURSIVE FinalWordCount(_)
FinalWordCount(q) ==
    IF q = <<>> THEN 0
    ELSE (IF Head(q).fin THEN Len(Split(Head(q).text)) ELSE 0)
            + FinalWordCount(Tail(q))

\* C26 (no final is lost at the V2 overlay).  When _poll_queue empties the
\* queue, the words of every final item it took are appended to final_words:
\* short of the MAX_WORDS window, final_words grows by at least the words of
\* the final items that were queued.
C26_NoFinalLost ==
    [][(variant = "V2" /\ out # <<>> /\ out' = <<>> /\ nresp' = nresp
            /\ Len(final_words') < MAX_WORDS) =>
            Len(final_words') >= Len(final_words) + FinalWordCount(out)]_vars

\* C30 (word window of the V2 overlay).  final_words never holds more than
\* MAX_WORDS words.  A poll that processes a final item appends the words of
\* current_interim and of the translated text, keeps the last MAX_WORDS words
\* of the result in their order, and leaves current_interim empty; a poll that
\* processes an interim item sets current_interim to the translated text and
\* leaves final_words unchanged.
C30_WordWindow ==
    /\ [](Len(final_words) <= MAX_WORDS)
    /\ [][(variant = "V2" /\ out # <<>> /\ out' = <<>> /\ nresp' = nresp
                /\ out[Len(out)].text # <<>>) =>
            LET item == out[Len(out)]
            IN  IF item.fin
                THEN /\ current_interim' = <<>>
                     /\ \E translated \in Translations(item.text) :
                           LET all == final_words \o Split(current_interim)
                                          \o Split(translated)
                               n == Len(all)
                               k == IF n < MAX_WORDS THEN n ELSE MAX_WORDS
                           IN  final_words' = SubSeq(all, n - k + 1, n)
                ELSE /\ final_words' = final_words
                     /\ current_interim' \in Translations(item.text)]_vars

\* the window was full, a final "hello" was processed after an interim: the
\* oldest words are gone and the newest word is last
C30_Witness ==
    /\ variant = "V2"
    /\ Len(final_words) = MAX_WORDS
    /\ final_words[1] = <<"quitter">>
    /\ final_words[MAX_WORDS - 1] = <<"hello">>
    /\ final_words[MAX_WORDS] = <<"bonjour">>
    /\ current_interim = <<>>
    /\ out = <<>>

\* C27 (the sentinel ends the output).  When the driver of main.py stops for
\* good, the last item it has put on the transcript queue is the sentinel
\* None, so the overlay that reads the queue quits.
C27_SentinelOnStop ==
    [][(variant = "main" /\ pc # "STOPPED" /\ pc' = "STOPPED") =>
            /\ out' # <<>>
            /\ out'[Len(out')] = NoneItem]_vars

\* no item of the queue comes after a sentinel
NothingAfterNone(q) ==
    \A i \in 1..Len(q) : q[i] = NoneItem => i = Len(q)

\* C28 (the sentinel only at the end).  The driver of main.py puts the
\* sentinel None only when a shutdown was requested, not when a response
\* stream ends and the driver goes on to a new session; and no item follows a
\* sentinel on the transcript queue.
C28_SentinelOnlyAtEnd ==
    /\ []((variant = "main") => NothingAfterNone(out))
    /\ [][(variant = "main" /\ Len(out') = Len(out) + 1
                /\ out'[Len(out')] = NoneItem) => stop_event]_vars

IsAudio(r) == r.kind = "audio"

\* the audio requests sent for chunk number k, in the order sent
PiecesOf(k) == SelectSeq(rq_sent, LAMBDA r : r.kind = "audio" /\ r.chunk = k)

\* the for loop over chunk number k has finished
ChunkDone(k) == k < rq_k \/ (k = rq_k /\ rq_pc \in {"next", "done"})

RECURSIVE SumLens(_)
SumLens(q) == IF q = <<>> THEN 0 ELSE Head(q) + SumLens(Tail(q))

\* C29 (V2 chunk splitting).  The configuration request is the first request
\* of the session and the only one of its kind; every audio request carries
\* between 1 and MAX_CHUNK_BYTES bytes; the requests of a chunk follow those
\* of the chunk before, start at byte 0 and each starts where the one before
\* ended, and once the chunk is done they end at its last byte, so that
\* their concatenation is the chunk; stt_bytes_sent is the number of bytes
\* sent, the sum of the lengths of the chunks done when none is in hand.
C29_ChunkSplitting ==
    /\ rq_pc \notin {"idle", "start"} =>
            /\ rq_sent # <<>>
            /\ rq_sent[1] = ConfigRequest
    /\ \A n \in 1..Len(rq_sent) :
            /\ n > 1 => rq_sent[n].kind = "audio"
            /\ rq_sent[n].kind = "audio" =>
                    /\ rq_sent[n].to - rq_sent[n].from >= 1
                    /\ rq_sent[n].to - rq_sent[n].from <= MAX_CHUNK_BYTES
            /\ (n > 2) => rq_sent[n - 1].chunk <= rq_sent[n].chunk
    /\ \A k \in 1..Len(rq_chunks) :
            LET pieces == PiecesOf(k)
            IN  /\ pieces # <<>> => pieces[1].from = 0
                /\ \A n \in 2..Len(pieces) : pieces[n].from = pieces[n - 1].to
                /\ ChunkDone(k) =>
                        /\ pieces # <<>>
                        /\ pieces[Len(pieces)].to = rq_chunks[k]
                /\ k > rq_k => pieces = <<>>
    /\ LET audio == SelectSeq(rq_sent, IsAudio)
       IN  stt_bytes_sent = SumLens([n \in 1..Len(audio) |-> audio[n].to - audio[n].from])
    /\ rq_pc \in {"next", "done"} =>
            stt_bytes_sent = SumLens(SubSeq(rq_chunks, 1, rq_k))

\* a full device buffer and a chunk of MAX_CHUNK_BYTES and one frame have
\* been sent: ten pieces and two, the last of one frame
C29_Witness ==
    /\ rq_pc = "done"
    /\ rq_chunks = <<CHUNK * FrameBytes, MAX_CHUNK_BYTES + FrameBytes>>
    /\ Len(rq_sent) = 13
    /\ rq_sent[13] = AudioRequest(2, MAX_CHUNK_BYTES, MAX_CHUNK_BYTES + FrameBytes)
    /\ stt_bytes_sent = CHUNK * FrameBytes + MAX_CHUNK_BYTES + FrameBytes

\* C31 (file source of app_bar_version).  With a file as the source, a
\* session that ends without an exception ends the driver, and the ended
\* driver opens nothing; a session that ends with an expiry or another error
\* leads through the back-off and the loop head to a new session, which reads
\* the file from its first buffer on.  With the microphone the driver ends at
\* the loop head only, with the stop flag set.
C31_FileSource ==
    /\ []((variant = "appbar" /\ stream_arg = "file") =>
            /\ (pc = "STREAMING") => wav_pos = Len(yld)
            /\ \A i \in 1..Len(yld) : yld[i] = i)
    /\ [][(variant = "appbar" /\ stream_arg = "file") =>
            /\ (pc = "STREAMING" /\ ended' \in {"ended", "stop"}) => pc' = "STOPPED"
            /\ (pc = "STOPPED" /\ starts' = starts) =>
                    (pc' = "STOPPED" /\ ~call' /\ api_call_count' = api_call_count)
            /\ (pc = "STREAMING" /\ ended' = "expired") => pc' = "EXPIRED"
            /\ (pc = "STREAMING" /\ ended' = "error") => pc' = "FAILED"
            /\ (pc \in {"EXPIRED", "FAILED"}) => pc' \in {pc, "TOP"}
            /\ (pc = "TOP" /\ ~stop_event) => pc' \in {"TOP", "OPENING"}
            /\ (pc = "OPENING") => pc' \in {"OPENING", "STREAMING", "FAILED"}
            /\ (pc = "OPENING" /\ pc' = "STREAMING") => (wav_pos' = 0 /\ yld' = <<>>)]_vars
    /\ [][(variant = "appbar" /\ stream_arg = "mic") =>
            /\ (pc # "STOPPED" /\ pc' = "STOPPED") => (pc = "TOP" /\ stop_event)
            /\ (pc = "STREAMING" /\ pc' # "STREAMING") =>
                    pc' \in {"TOP", "EXPIRED", "FAILED"}
            /\ (pc = "TOP" /\ ~stop_event) => pc' \in {"TOP", "OPENING"}]_vars

\* the first session answered and expired, and the second session has read
\* the first buffer of the file again
C31_Witness ==
    /\ variant = "appbar"
    /\ stream_arg = "file"
    /\ pc = "STREAMING"
    /\ api_call_count = 2
    /\ expiries = 1
    /\ yld = <<1>>
    /\ wav_pos = 1
    /\ nresp = MaxEvents

\* C32 (translation delta of the app_bar overlay).  A poll that takes a
\* transcript sends what follows last_sent in it, stripped, when the
\* transcript begins with last_sent, and the whole transcript otherwise: the
\* call is counted, the characters sent are counted, the label gains a
\* translation of exactly that text and last_sent becomes the transcript.
\* When nothing follows last_sent the poll changes none of last_sent, the
\* label and the counters.  last_sent changes in no step that does not
\* count a translation call, and the driver changes none of the four.
C32_TranslationDelta ==
    /\ [][(variant = "appbar" /\ out # <<>> /\ out' = <<>>) =>
            LET latest == out[Len(out)].text
                rest == Strip(SubSeq(latest, Len(last_sent) + 1, Len(latest)))
                sent == IF StartsWith(latest, last_sent) THEN rest ELSE latest
            IN  IF sent = <<>>
                THEN UNCHANGED <<last_sent, label_text, translate_call_count,
                                 translate_char_count>>
                ELSE /\ translate_call_count' = translate_call_count + 1
                     /\ translate_char_count' = translate_char_count + CharLen(sent)
                     /\ \E translated \in Translations(sent) :
                           label_text' = Relabel(label_text, translated)
                     /\ last_sent' = latest]_vars
    /\ [][(variant = "appbar" /\ last_sent' # last_sent) =>
            translate_call_count' = translate_call_count + 1]_vars
    /\ [][(variant = "appbar" /\ out' # <<>>) =>
            UNCHANGED <<last_sent, label_text, translate_call_count,
                        translate_char_count>>]_vars

\* "hello" was polled and translated, then "hello EXIT." was polled and only
\* "EXIT." was sent: five characters each time
C32_Witness ==
    /\ variant = "appbar"
    /\ last_sent = TExit
    /\ translate_call_count = 2
    /\ translate_char_count = 10
    /\ label_text = <<"bonjour", " ", "SORTIE", ".">>
    /\ out = <<>>

\* C33 (interim throttling of main.py).  When the driver of main.py handles
\* a result that is neither final nor sentence-finished, it puts exactly one
\* item: with the interval over, the translation of the transcript, and the
\* interval starts again; inside the interval, no translation is made and
\* the item is the last translated text (the transcript when there is
\* none).  The interval is counted from the last translation: once a
\* translation has started it, only the passing of time ends it.
C33_InterimThrottle ==
    /\ [][\A results \in Responses :
            ( /\ variant = "main"
              /\ ~stop_event
              /\ nresp' # nresp
              /\ results # <<>>
              /\ results[1].alts
              /\ Strip(results[1].transcript) # <<>>
              /\ ~results[1].is_final
              /\ ~sentence_finished(results[1].transcript)
              /\ run_response(results) ) =>
            LET transcript == results[1].transcript
            IN  IF elapsed
                THEN /\ out' = Append(out, TextItem(translate_text(<<transcript>>)[1]))
                     /\ last_translated_text' = translate_text(<<transcript>>)[1]
                     /\ ~elapsed'
                ELSE /\ out' = Append(out, TextItem(IF last_translated_text # <<>>
                                                    THEN last_translated_text
                                                    ELSE transcript))
                     /\ UNCHANGED <<last_translated_text, elapsed>>]_vars
    /\ [][(variant = "main" /\ ~elapsed /\ elapsed') =>
            (pc = "STREAMING" /\ UNCHANGED <<pc, nresp, out, last_translated_text>>)]_vars

====
